---- MODULE Spec2Model ----
(***************************************************************************)
(* Model of src/controller/eme-controller.js (EMEController of hls.js):    *)
(* key-system access negotiation, MediaKeys / session creation and the     *)
(* one-time setMediaKeys on the media element.                             *)
(*                                                                         *)
(* Every handler and every promise continuation of the controller is one   *)
(* action.  Host objects (MediaKeys, sessions, media                       *)
(* elements) are positive integers; null is 0.                             *)
(***************************************************************************)
EXTENDS Integers, Sequences, FiniteSets, TLC

\* ---------------------------------------------------------------- bounds
\* number of requestMediaKeySystemAccess host calls explored
MaxRequests == 2
\* number of quality levels in one manifest
MaxLevels == 2

\* ------------------------------------------------------------- constants
null == 0

WIDEVINE == "com.widevine.alpha"

KeySystems == {WIDEVINE}

\* identifiers a caller may hand to _attemptKeySystemAccess
KeySystemIds == {WIDEVINE, "com.microsoft.playready"}

VideoCodecs == {"avc1.4d401f", "avc1.42E01E"}

AudioCodecs == {"mp4a.40.2"}

Medias == {1, 2}

Levels == [audioCodec : AudioCodecs, videoCodec : VideoCodecs]

LevelLists == UNION {[1..n -> Levels] : n \in 1..MaxLevels}

VARIABLES
    _mediaKeysList,      \* this._mediaKeysList
    _media,              \* this._media
    _hasSetMediaKeys,    \* this._hasSetMediaKeys
    _isMediaEncrypted,   \* this._isMediaEncrypted
    encryptedListeners,  \* the media elements an 'encrypted' listener was added to
    nRequestAccess,      \* requestMediaKeySystemAccess calls made so far
    requestArgs,         \* arguments of the requestMediaKeySystemAccess call of the last step
    attemptArgs,         \* arguments of the _attemptKeySystemAccess call of the last step
    pendingAccess,       \* access promises not yet settled (the handle each would grant)
    nCreateMediaKeys,    \* createMediaKeys calls made so far
    pendingCreate,       \* createMediaKeys promises not yet settled (by entry)
    sessionCalls,        \* evaluations of item.mediaKeys.createSession()
    setMediaKeysCalls,   \* arguments of the media.setMediaKeys calls, in order
    last                 \* the handler that ran last and what it reported

vars == <<_mediaKeysList, _media, _hasSetMediaKeys, _isMediaEncrypted,
          encryptedListeners, nRequestAccess, requestArgs, attemptArgs, pendingAccess,
          nCreateMediaKeys, pendingCreate, sessionCalls, setMediaKeysCalls,
          last>>

\* what a handler reported: op is the handler, error the condition it logged
\* or threw ("none" when it completed silently), cause the underlying reason
Report(op, error, cause) == [op |-> op, error |-> error, cause |-> cause]

\* -------------------------------------------------------- KeySystemCatalog
\* `video/mp4; codecs="${codec}"`
ContentType(codec) == [mime |-> "video/mp4", codecs |-> codec]

\* the elements of seq in order of first occurrence, each once
RECURSIVE Distinct(_)
Distinct(seq) ==
    IF seq = << >> THEN << >>
    ELSE LET front == Distinct(SubSeq(seq, 1, Len(seq) - 1))
             x == seq[Len(seq)]
         IN  IF \E k \in 1..Len(front) : front[k] = x THEN front ELSE Append(front, x)

\* faulty variant: repeated codecs are merged into one capability
createWidevineMediaKeySystemConfigurations_Merged(audioCodecs, videoCodecs) ==
    << [videoCapabilities |->
          [i \in 1..Len(Distinct(videoCodecs)) |->
              [contentType |-> ContentType(Distinct(videoCodecs)[i])]]] >>

\* baseConfig.videoCapabilities gets one push per element of videoCodecs
createWidevineMediaKeySystemConfigurations(audioCodecs, videoCodecs) ==
    << [videoCapabilities |->
          [i \in 1..Len(videoCodecs) |-> [contentType |-> ContentType(videoCodecs[i])]]] >>

\* faulty variant: the default branch builds a configuration instead of throwing
getSupportedMediaKeySystemConfigurations_NoThrow(keySystem, audioCodecs, videoCodecs) ==
    [threw |-> FALSE,
     value |-> createWidevineMediaKeySystemConfigurations(audioCodecs, videoCodecs)]

\* threw = TRUE stands for `throw Error('Unknown key-system: ' + keySystem)`
getSupportedMediaKeySystemConfigurations(keySystem, audioCodecs, videoCodecs) ==
    IF keySystem = WIDEVINE
    THEN [threw |-> FALSE,
          value |-> createWidevineMediaKeySystemConfigurations(audioCodecs, videoCodecs)]
    ELSE [threw |-> TRUE, value |-> << >>]

\* ------------------------------------------------------------ constructor
Init ==
    /\ _mediaKeysList = << >>
    /\ _media = null
    /\ _hasSetMediaKeys = FALSE
    /\ _isMediaEncrypted = FALSE
    /\ encryptedListeners = {}
    /\ nRequestAccess = 0
    /\ requestArgs = << >>
    /\ attemptArgs = << >>
    /\ pendingAccess = {}
    /\ nCreateMediaKeys = 0
    /\ pendingCreate = {}
    /\ sessionCalls = {}
    /\ setMediaKeysCalls = << >>
    /\ last = Report("constructor", "none", "none")

\* ---------------------------------------------------- CapabilityNegotiator
\* the MediaKeySystemAccess object the host grants for request number id
AccessHandle(id, keySystem) == [id |-> id, keySystem |-> keySystem]

\* _attemptKeySystemAccess: the catalog's throw propagates to the caller
\* before any host call; otherwise exactly one access request is issued.
\* (`!mediaKeySystemConfigs` is never true of the array the catalog returns.)
AttemptKeySystemAccess(keySystem, audioCodecs, videoCodecs) ==
    LET configs == getSupportedMediaKeySystemConfigurations(keySystem, audioCodecs, videoCodecs)
    IN  IF configs.threw
        THEN /\ last' = Report("_attemptKeySystemAccess", "UnsupportedKeySystem", keySystem)
             /\ requestArgs' = << >>
             /\ attemptArgs' = <<keySystem, audioCodecs, videoCodecs>>
             /\ UNCHANGED <<nRequestAccess, pendingAccess>>
        ELSE /\ nRequestAccess' = nRequestAccess + 1
             /\ requestArgs' = <<keySystem, configs.value>>
             /\ attemptArgs' = <<keySystem, audioCodecs, videoCodecs>>
             /\ pendingAccess' = pendingAccess \cup {AccessHandle(nRequestAccess + 1, keySystem)}
             /\ last' = Report("_attemptKeySystemAccess", "none", "none")

onManifestParsed(levels) ==
    /\ nRequestAccess < MaxRequests
    /\ AttemptKeySystemAccess(WIDEVINE,
                              [i \in 1..Len(levels) |-> levels[i].audioCodec],
                              [i \in 1..Len(levels) |-> levels[i].videoCodec])
    /\ UNCHANGED <<_mediaKeysList, _media, _hasSetMediaKeys, _isMediaEncrypted,
                   encryptedListeners, nCreateMediaKeys, pendingCreate,
                   sessionCalls, setMediaKeysCalls>>

\* the entry pushed by _onMediaKeySystemAccessObtained
NewListItem(mediaKeySystemAccess) ==
    [mediaKeys |-> null, mediaKeysSession |-> null,
     mediaKeySystemAccess |-> mediaKeySystemAccess]

\* faulty variant: the list is reassigned to hold the new entry only
PushListItem_Replace(list, item) == <<item>>

\* faulty variant: the new entry is put in front of the list
PushListItem_Unshift(list, item) == <<item>> \o list

\* this._mediaKeysList.push(mediaKeysListItem)
PushListItem(list, item) == Append(list, item)

\* requestMediaKeySystemAccess(...).then: _onMediaKeySystemAccessObtained
\* with the handle r the host granted
OnMediaKeySystemAccessObtained(r) ==
    /\ r \in pendingAccess
    /\ pendingAccess' = pendingAccess \ {r}
    /\ _mediaKeysList' = PushListItem(_mediaKeysList, NewListItem(r))
    /\ nCreateMediaKeys' = nCreateMediaKeys + 1
    /\ pendingCreate' = pendingCreate \cup {Len(_mediaKeysList) + 1}
    /\ last' = Report("_onMediaKeySystemAccessObtained", "none", "none")
    /\ requestArgs' = << >>
    /\ attemptArgs' = << >>
    /\ UNCHANGED <<_media, _hasSetMediaKeys, _isMediaEncrypted, encryptedListeners,
                   nRequestAccess, sessionCalls, setMediaKeysCalls>>

\* faulty variant: the rejection is handled like a grant (entry pushed, module requested)
OnMediaKeySystemAccessRejected_Push(r) ==
    /\ r \in pendingAccess
    /\ pendingAccess' = pendingAccess \ {r}
    /\ _mediaKeysList' = PushListItem(_mediaKeysList, NewListItem(r))
    /\ nCreateMediaKeys' = nCreateMediaKeys + 1
    /\ pendingCreate' = pendingCreate \cup {Len(_mediaKeysList) + 1}
    /\ last' = Report("_attemptKeySystemAccess.catch", "KeySystemAccessDenied", "rejected")
    /\ requestArgs' = << >>
    /\ attemptArgs' = << >>
    /\ UNCHANGED <<_media, _hasSetMediaKeys, _isMediaEncrypted, encryptedListeners,
                   nRequestAccess, sessionCalls, setMediaKeysCalls>>

\* requestMediaKeySystemAccess(...).catch: console.error only
OnMediaKeySystemAccessRejected(r) ==
    /\ r \in pendingAccess
    /\ pendingAccess' = pendingAccess \ {r}
    /\ last' = Report("_attemptKeySystemAccess.catch", "KeySystemAccessDenied", "rejected")
    /\ requestArgs' = << >>
    /\ attemptArgs' = << >>
    /\ UNCHANGED <<_mediaKeysList, _media, _hasSetMediaKeys, _isMediaEncrypted,
                   encryptedListeners, nRequestAccess, nCreateMediaKeys,
                   pendingCreate, sessionCalls, setMediaKeysCalls>>

\* ---------------------------------------------------------- SessionManager
\* the MediaKeys object createMediaKeys resolves with for entry i
NewMediaKeys(i) == i

\* the session object mediaKeys.createSession() returns for entry i
NewSession(i) == i

\* the forEach of _onMediaKeysCreated from item i on.  An item without a
\* session has item.mediaKeys.createSession() evaluated: on a null mediaKeys
\* that is a TypeError, on a MediaKeys the host may throw (i \in fails);
\* either exception leaves the forEach.  calls collects the evaluations.
RECURSIVE forEachItem(_, _, _, _)
forEachItem(list, i, fails, calls) ==
    IF i > Len(list)
    THEN [list |-> list, threw |-> FALSE, cause |-> "none", calls |-> calls]
    ELSE IF list[i].mediaKeysSession # null
    THEN forEachItem(list, i + 1, fails, calls)
    ELSE LET call == [entry |-> i, receiver |-> list[i].mediaKeys]
         IN  IF list[i].mediaKeys = null
             THEN [list |-> list, threw |-> TRUE, cause |-> "TypeError",
                   calls |-> calls \cup {call}]
             ELSE IF i \in fails
             THEN [list |-> list, threw |-> TRUE, cause |-> "createSession",
                   calls |-> calls \cup {call}]
             ELSE forEachItem([list EXCEPT ![i].mediaKeysSession = NewSession(i)],
                              i + 1, fails, calls \cup {call})

\* _onMediaKeysCreated on the list; fails = the items whose createSession throws
OnMediaKeysCreated(list, fails) == forEachItem(list, 1, fails, {})

\* the host failures of createSession that one forEach can tell apart: it is
\* left at the first exception, so none or a single failing item
FirstFailure(list) == {{}} \cup {{j} : j \in 1..Len(list)}

\* faulty variant: the module is written to every item of the list
StoreMediaKeys_AllItems(list, i) ==
    [j \in 1..Len(list) |-> [list[j] EXCEPT !.mediaKeys = NewMediaKeys(i)]]

\* faulty variant: the module lands on the newest item, not on the captured one
StoreMediaKeys_LastItem(list, i) ==
    [list EXCEPT ![Len(list)].mediaKeys = NewMediaKeys(i)]

\* mediaKeysListItem.mediaKeys = mediaKeys, on the item the closure captured
StoreMediaKeys(list, i) == [list EXCEPT ![i].mediaKeys = NewMediaKeys(i)]

\* faulty variant: the continuation also binds the module when the media was
\* seen encrypted and nothing is bound yet
OnCreateMediaKeysResolved_Rebind(i, fails) ==
    /\ i \in pendingCreate
    /\ pendingCreate' = pendingCreate \ {i}
    /\ LET stored == StoreMediaKeys(_mediaKeysList, i)
           result == OnMediaKeysCreated(stored, fails)
       IN  /\ _mediaKeysList' = result.list
           /\ sessionCalls' = sessionCalls \cup result.calls
           /\ last' = IF result.threw
                      THEN Report("createMediaKeys.then", "ModuleCreationFailed", result.cause)
                      ELSE Report("createMediaKeys.then", "none", "none")
           /\ IF _isMediaEncrypted /\ ~_hasSetMediaKeys /\ _media # null
              THEN /\ setMediaKeysCalls' = Append(setMediaKeysCalls,
                          [media |-> _media, mediaKeys |-> stored[1].mediaKeys])
                   /\ _hasSetMediaKeys' = TRUE
              ELSE UNCHANGED <<_hasSetMediaKeys, setMediaKeysCalls>>
    /\ requestArgs' = << >>
    /\ attemptArgs' = << >>
    /\ UNCHANGED <<_media, _isMediaEncrypted, encryptedListeners,
                   nRequestAccess, pendingAccess, nCreateMediaKeys>>

\* createMediaKeys().then of entry i: store the module, then _onMediaKeysCreated;
\* an exception of the latter lands in the chained .catch, which logs
\* 'Failed to create media-keys:'
OnCreateMediaKeysResolved(i, fails) ==
    /\ i \in pendingCreate
    /\ pendingCreate' = pendingCreate \ {i}
    /\ LET stored == StoreMediaKeys(_mediaKeysList, i)
           result == OnMediaKeysCreated(stored, fails)
       IN  /\ _mediaKeysList' = result.list
           /\ sessionCalls' = sessionCalls \cup result.calls
           /\ last' = IF result.threw
                      THEN Report("createMediaKeys.then", "ModuleCreationFailed", result.cause)
                      ELSE Report("createMediaKeys.then", "none", "none")
    /\ requestArgs' = << >>
    /\ attemptArgs' = << >>
    /\ UNCHANGED <<_media, _hasSetMediaKeys, _isMediaEncrypted, encryptedListeners,
                   nRequestAccess, pendingAccess, nCreateMediaKeys,
                   setMediaKeysCalls>>

\* faulty variant: a rejected createMediaKeys is requested again
OnCreateMediaKeysRejected_Retry(i) ==
    /\ i \in pendingCreate
    /\ nCreateMediaKeys' = nCreateMediaKeys + 1
    /\ last' = Report("createMediaKeys.catch", "ModuleCreationFailed", "rejected")
    /\ requestArgs' = << >>
    /\ attemptArgs' = << >>
    /\ UNCHANGED <<_mediaKeysList, _media, _hasSetMediaKeys, _isMediaEncrypted,
                   encryptedListeners, nRequestAccess, pendingAccess,
                   pendingCreate, sessionCalls, setMediaKeysCalls>>

\* createMediaKeys().catch of entry i after a rejection: console.error only
OnCreateMediaKeysRejected(i) ==
    /\ i \in pendingCreate
    /\ pendingCreate' = pendingCreate \ {i}
    /\ last' = Report("createMediaKeys.catch", "ModuleCreationFailed", "rejected")
    /\ requestArgs' = << >>
    /\ attemptArgs' = << >>
    /\ UNCHANGED <<_mediaKeysList, _media, _hasSetMediaKeys, _isMediaEncrypted,
                   encryptedListeners, nRequestAccess, pendingAccess,
                   nCreateMediaKeys, sessionCalls, setMediaKeysCalls>>

\* ------------------------------------------------------------------ Binder
\* faulty variant: the `if (!this._hasSetMediaKeys)` guard is missing
AttemptSetMediaKeys_NoGuard ==
    IF Len(_mediaKeysList) = 0
    THEN /\ last' = Report("_onMediaEncrypted", "NoModuleAvailable", "none")
         /\ UNCHANGED <<_hasSetMediaKeys, setMediaKeysCalls>>
    ELSE /\ setMediaKeysCalls' = Append(setMediaKeysCalls,
                [media |-> _media, mediaKeys |-> _mediaKeysList[1].mediaKeys])
         /\ _hasSetMediaKeys' = TRUE
         /\ last' = Report("_onMediaEncrypted", "none", "none")

\* faulty variant: the flag is not recorded after the attach
AttemptSetMediaKeys_NoFlag ==
    IF ~_hasSetMediaKeys /\ Len(_mediaKeysList) > 0
    THEN /\ setMediaKeysCalls' = Append(setMediaKeysCalls,
                [media |-> _media, mediaKeys |-> _mediaKeysList[1].mediaKeys])
         /\ last' = Report("_onMediaEncrypted", "none", "none")
         /\ UNCHANGED _hasSetMediaKeys
    ELSE /\ last' = Report("_onMediaEncrypted",
                           IF _hasSetMediaKeys THEN "none" ELSE "NoModuleAvailable", "none")
         /\ UNCHANGED <<_hasSetMediaKeys, setMediaKeysCalls>>

\* _attemptSetMediaKeys: keysListItem is this._mediaKeysList[0]; a missing
\* item is logged as a fatal error; this._media.setMediaKeys on a null
\* _media would be a TypeError before the flag is set
AttemptSetMediaKeys ==
    IF ~_hasSetMediaKeys
    THEN IF Len(_mediaKeysList) = 0
         THEN /\ last' = Report("_onMediaEncrypted", "NoModuleAvailable", "none")
              /\ UNCHANGED <<_hasSetMediaKeys, setMediaKeysCalls>>
         ELSE IF _media = null
         THEN /\ last' = Report("_onMediaEncrypted", "TypeError", "media")
              /\ UNCHANGED <<_hasSetMediaKeys, setMediaKeysCalls>>
         ELSE /\ setMediaKeysCalls' = Append(setMediaKeysCalls,
                     [media |-> _media, mediaKeys |-> _mediaKeysList[1].mediaKeys])
              /\ _hasSetMediaKeys' = TRUE
              /\ last' = Report("_onMediaEncrypted", "none", "none")
    ELSE /\ last' = Report("_onMediaEncrypted", "none", "none")
         /\ UNCHANGED <<_hasSetMediaKeys, setMediaKeysCalls>>

\* an 'encrypted' listener added to media element m runs: _onMediaEncrypted
OnMediaEncrypted(m) ==
    /\ m \in encryptedListeners
    /\ _isMediaEncrypted' = TRUE
    /\ AttemptSetMediaKeys
    /\ requestArgs' = << >>
    /\ attemptArgs' = << >>
    /\ UNCHANGED <<_mediaKeysList, _media, encryptedListeners, nRequestAccess, pendingAccess, nCreateMediaKeys, pendingCreate,
                   sessionCalls>>

\* ----------------------------------------------------------- event handlers
onMediaAttaching ==
    /\ last' = Report("onMediaAttaching", "none", "none")
    /\ requestArgs' = << >>
    /\ attemptArgs' = << >>
    /\ UNCHANGED <<_mediaKeysList, _media, _hasSetMediaKeys, _isMediaEncrypted,
                   encryptedListeners, nRequestAccess, pendingAccess,
                   nCreateMediaKeys, pendingCreate, sessionCalls, setMediaKeysCalls>>

\* faulty variant: the listener is added but the media is not recorded
onMediaAttached_ListenerOnly(m) ==
    /\ encryptedListeners' = encryptedListeners \cup {m}
    /\ last' = Report("onMediaAttached", "none", "none")
    /\ requestArgs' = << >>
    /\ attemptArgs' = << >>
    /\ UNCHANGED <<_mediaKeysList, _media, _hasSetMediaKeys, _isMediaEncrypted,
                   nRequestAccess, pendingAccess, nCreateMediaKeys,
                   pendingCreate, sessionCalls, setMediaKeysCalls>>

\* this._media = media, then media.addEventListener('encrypted', ...)
onMediaAttached(m) ==
    /\ _media' = m
    /\ encryptedListeners' = encryptedListeners \cup {m}
    /\ last' = Report("onMediaAttached", "none", "none")
    /\ requestArgs' = << >>
    /\ attemptArgs' = << >>
    /\ UNCHANGED <<_mediaKeysList, _hasSetMediaKeys, _isMediaEncrypted,
                   nRequestAccess, pendingAccess, nCreateMediaKeys,
                   pendingCreate, sessionCalls, setMediaKeysCalls>>

onLevelSwitched ==
    /\ last' = Report("onLevelSwitched", "none", "none")
    /\ requestArgs' = << >>
    /\ attemptArgs' = << >>
    /\ UNCHANGED <<_mediaKeysList, _media, _hasSetMediaKeys, _isMediaEncrypted,
                   encryptedListeners, nRequestAccess, pendingAccess,
                   nCreateMediaKeys, pendingCreate, sessionCalls, setMediaKeysCalls>>

\* ------------------------------------------------------------ specification
Next ==
    \/ onMediaAttaching
    \/ \E m \in Medias : onMediaAttached(m)
    \/ \E levels \in LevelLists : onManifestParsed(levels)
    \/ onLevelSwitched
    \/ \E r \in pendingAccess : OnMediaKeySystemAccessObtained(r)
    \/ \E r \in pendingAccess : OnMediaKeySystemAccessRejected(r)
    \/ \E i \in pendingCreate :
         \E fails \in FirstFailure(_mediaKeysList) : OnCreateMediaKeysResolved(i, fails)
    \/ \E i \in pendingCreate : OnCreateMediaKeysRejected(i)
    \/ \E m \in Medias : OnMediaEncrypted(m)

Spec == Init /\ [][Next]_vars

\* _attemptKeySystemAccess called with any key-system identifier
AttemptAnyKeySystem(keySystem, levels) ==
    /\ nRequestAccess < MaxRequests
    /\ AttemptKeySystemAccess(keySystem,
                              [i \in 1..Len(levels) |-> levels[i].audioCodec],
                              [i \in 1..Len(levels) |-> levels[i].videoCodec])
    /\ UNCHANGED <<_mediaKeysList, _media, _hasSetMediaKeys, _isMediaEncrypted,
                   encryptedListeners, nCreateMediaKeys, pendingCreate,
                   sessionCalls, setMediaKeysCalls>>

NextAnyKeySystem ==
    \/ Next
    \/ \E keySystem \in KeySystemIds : \E levels \in LevelLists :
         AttemptAnyKeySystem(keySystem, levels)

SpecAnyKeySystem == Init /\ [][NextAnyKeySystem]_vars

\* ------------------------------------------------------------- properties
\* the items of the list whose mediaKeys is present
WithModule(list) == {j \in 1..Len(list) : list[j].mediaKeys # null}

\* C1: the binding flag, once true, stays true, and from then on no further
\* setMediaKeys call is made; so over the whole run at most one call is made,
\* whatever completions and encrypted notifications follow.
C1_AttachAtMostOnce ==
    [][ /\ _hasSetMediaKeys =>
              (_hasSetMediaKeys' /\ setMediaKeysCalls' = setMediaKeysCalls)
        /\ Len(setMediaKeysCalls') <= 1 ]_vars

\* an encrypted notification was handled after the attach: the attach passed
\* null, the first entry got its module later, and the last step is a
\* notification again, with a second entry holding a module as well
C1_Witness ==
    /\ _hasSetMediaKeys
    /\ last.op = "_onMediaEncrypted"
    /\ Len(setMediaKeysCalls) = 1
    /\ setMediaKeysCalls[1].mediaKeys = null
    /\ Len(_mediaKeysList) = 2
    /\ WithModule(_mediaKeysList) = {1, 2}

\* C2: whenever an attach is performed, the module passed to the sink is the
\* module of the first entry (in insertion order) whose module is present;
\* an entry whose module is absent is never the one bound.
C2_FirstPresentModuleBound ==
    [][ setMediaKeysCalls' # setMediaKeysCalls =>
          \E j \in WithModule(_mediaKeysList) :
             /\ \A k \in 1..(j - 1) : k \notin WithModule(_mediaKeysList)
             /\ setMediaKeysCalls'[Len(setMediaKeysCalls')].mediaKeys
                  = _mediaKeysList[j].mediaKeys ]_vars

\* C3: an encrypted notification handled while unattached and while no entry
\* has a module makes no attach call, reports NoModuleAvailable and leaves
\* the binding flag false.
C3_NoModuleNoAttach ==
    [][ ( /\ last'.op = "_onMediaEncrypted"
          /\ ~_hasSetMediaKeys
          /\ WithModule(_mediaKeysList) = {} )
        => ( /\ setMediaKeysCalls' = setMediaKeysCalls
             /\ last'.error = "NoModuleAvailable"
             /\ ~_hasSetMediaKeys' ) ]_vars

\* C4: module creation is requested only for entries that exist (access has
\* completed), and createSession is only ever evaluated on an entry whose own
\* module creation has completed, never on an absent module.
C4_StepsOrdered ==
    /\ nCreateMediaKeys = Len(_mediaKeysList)
    /\ pendingCreate \subseteq 1..Len(_mediaKeysList)
    /\ \A c \in sessionCalls : c.receiver # null /\ c.entry \notin pendingCreate

\* C5: a successful access completion appends exactly one entry at the end,
\* holding the granted handle and neither module nor session, and leaves
\* the entries that existed before as they were.
C5_AccessAppendsOneEntry ==
    [][ last'.op = "_onMediaKeySystemAccessObtained" =>
          \E r \in pendingAccess \ pendingAccess' :
             /\ Len(_mediaKeysList') = Len(_mediaKeysList) + 1
             /\ SubSeq(_mediaKeysList', 1, Len(_mediaKeysList)) = _mediaKeysList
             /\ _mediaKeysList'[Len(_mediaKeysList')].mediaKeySystemAccess = r
             /\ _mediaKeysList'[Len(_mediaKeysList')].mediaKeys = null
             /\ _mediaKeysList'[Len(_mediaKeysList')].mediaKeysSession = null ]_vars

\* a second entry was just appended behind one that already has module and session
C5_Witness ==
    /\ last.op = "_onMediaKeySystemAccessObtained"
    /\ Len(_mediaKeysList) = 2
    /\ _mediaKeysList[1].mediaKeys # null
    /\ _mediaKeysList[1].mediaKeysSession # null
    /\ _mediaKeysList[2].mediaKeys = null

\* C6: a rejected access request leaves the list, the module-creation
\* requests and the binding flag as they were, is reported as
\* KeySystemAccessDenied and issues no new access request.
C6_AccessDeniedChangesNothing ==
    [][ last'.error = "KeySystemAccessDenied" =>
          /\ _mediaKeysList' = _mediaKeysList
          /\ nCreateMediaKeys' = nCreateMediaKeys
          /\ pendingCreate' = pendingCreate
          /\ _hasSetMediaKeys' = _hasSetMediaKeys
          /\ setMediaKeysCalls' = setMediaKeysCalls
          /\ nRequestAccess' = nRequestAccess
          /\ pendingAccess' \subseteq pendingAccess
          /\ pendingAccess' # pendingAccess ]_vars

\* the only request was rejected: the list is empty and no module was requested
C6_Witness ==
    /\ last.error = "KeySystemAccessDenied"
    /\ nRequestAccess = 1
    /\ pendingAccess = {}
    /\ _mediaKeysList = << >>
    /\ nCreateMediaKeys = 0

\* C7: _attemptKeySystemAccess with an identifier outside the catalog fails
\* with UnsupportedKeySystem and changes neither the host requests, the list
\* nor the binding flag; every access request ever issued names a catalogued
\* key-system.
C7_UnsupportedKeySystem ==
    [][ /\ last'.error = "UnsupportedKeySystem" =>
              /\ last'.cause \notin KeySystems
              /\ nRequestAccess' = nRequestAccess
              /\ pendingAccess' = pendingAccess
              /\ requestArgs' = << >>
              /\ _mediaKeysList' = _mediaKeysList
              /\ _hasSetMediaKeys' = _hasSetMediaKeys
        /\ requestArgs' # << >> => requestArgs'[1] \in KeySystems
        /\ \A r \in pendingAccess' : r.keySystem \in KeySystems ]_vars

\* an unknown identifier was refused while an entry exists and the sink is bound
C7_Witness ==
    /\ last.error = "UnsupportedKeySystem"
    /\ last.cause = "com.microsoft.playready"
    /\ Len(_mediaKeysList) = 1
    /\ nRequestAccess = 1
    /\ _hasSetMediaKeys

\* C8: the list holds at most one entry per key-system identifier.
C8_OneEntryPerKeySystem ==
    \A i, j \in 1..Len(_mediaKeysList) :
        _mediaKeysList[i].mediaKeySystemAccess.keySystem
          = _mediaKeysList[j].mediaKeySystemAccess.keySystem
        => i = j

\* C9: right after a module-creation continuation has run _onMediaKeysCreated
\* (with no createSession failure of the host), running it once more creates
\* or replaces no session, evaluates no createSession and raises no error.
C9_EnsureSessionsIdempotent ==
    (last.op = "createMediaKeys.then" /\ last.cause # "createSession") =>
        LET second == OnMediaKeysCreated(_mediaKeysList, {})
        IN  /\ second.list = _mediaKeysList
            /\ second.calls = {}
            /\ ~second.threw

\* C10: when an encrypted notification is handled while unattached and the
\* first entry's module has been created, the run has exactly one setMediaKeys
\* call, made with that module, and the binding flag is true afterwards.
C10_AttachAfterModule ==
    [][ ( /\ last'.op = "_onMediaEncrypted"
          /\ ~_hasSetMediaKeys
          /\ 1 \in WithModule(_mediaKeysList) )
        => ( /\ Len(setMediaKeysCalls') = 1
             /\ setMediaKeysCalls'[1].mediaKeys = _mediaKeysList[1].mediaKeys
             /\ setMediaKeysCalls'[1].mediaKeys = NewMediaKeys(1)
             /\ setMediaKeysCalls'[1].media = _media
             /\ _hasSetMediaKeys' ) ]_vars

\* access granted, module created, then the notification: one entry, attached
\* with its module
C10_Witness ==
    /\ last.op = "_onMediaEncrypted"
    /\ _hasSetMediaKeys
    /\ Len(_mediaKeysList) = 1
    /\ Len(setMediaKeysCalls) = 1
    /\ setMediaKeysCalls[1].mediaKeys = _mediaKeysList[1].mediaKeys
    /\ setMediaKeysCalls[1].mediaKeys # null

\* C11 (as stated): the access request carries a non-empty candidate sequence
\* whose configuration holds exactly one video capability per distinct
\* requested video codec, in request order.
C11_OneCapabilityPerDistinctCodec ==
    requestArgs # << >> =>
        /\ Len(requestArgs[2]) >= 1
        /\ LET caps == requestArgs[2][1].videoCapabilities
               codecs == Distinct(attemptArgs[3])
           IN  /\ Len(caps) = Len(codecs)
               /\ \A i \in 1..Len(caps) :
                    caps[i].contentType = [mime |-> "video/mp4", codecs |-> codecs[i]]

\* C11 (amended): the access request carries exactly one candidate whose
\* configuration holds one video capability per requested video codec
\* occurrence (one per quality level), in request order; repeated codecs
\* are not merged.
C11_OneCapabilityPerRequestedCodec ==
    requestArgs # << >> =>
        /\ Len(requestArgs[2]) = 1
        /\ requestArgs[1] = attemptArgs[1]
        /\ LET caps == requestArgs[2][1].videoCapabilities
               codecs == attemptArgs[3]
           IN  /\ Len(caps) = Len(codecs)
               /\ \A i \in 1..Len(caps) :
                    caps[i].contentType = [mime |-> "video/mp4", codecs |-> codecs[i]]

\* a manifest whose two levels share one video codec was just requested
C11_Witness ==
    /\ requestArgs # << >>
    /\ Len(attemptArgs[3]) = 2
    /\ attemptArgs[3][1] = attemptArgs[3][2]
    /\ Len(requestArgs[2][1].videoCapabilities) = 2

\* C12: when a module-creation success continuation has finished (no
\* createSession failure of the host), every entry whose module is present
\* has a session and no error was raised for entries without a module.
C12_EveryModuleHasSession ==
    (last.op = "createMediaKeys.then" /\ last.cause # "createSession") =>
        /\ \A j \in WithModule(_mediaKeysList) :
              _mediaKeysList[j].mediaKeysSession # null
        /\ last.error = "none"

\* C13: a createSession failure is reported as SessionCreationFailed and
\* leaves only the failing entry without a session: every other entry that
\* has a module got its session in the same pass.
C13_SessionFailureIsLocal ==
    (last.op = "createMediaKeys.then" /\ last.cause = "createSession") =>
        /\ last.error = "SessionCreationFailed"
        /\ Cardinality({j \in WithModule(_mediaKeysList) :
                           _mediaKeysList[j].mediaKeysSession = null}) = 1

\* C14 (as stated): the module-creation continuation of an entry leaves
\* every other entry of the list as it was.
C14_OnlyOwnEntryMutated ==
    [][ last'.op = "createMediaKeys.then" =>
          \A j \in 1..Len(_mediaKeysList) :
             j \notin (pendingCreate \ pendingCreate') =>
                _mediaKeysList'[j] = _mediaKeysList[j] ]_vars

\* C14 (amended): the module-creation continuation of an entry writes the
\* module of that entry only and no access handle; on the other entries it
\* changes nothing but a session that was absent, on an entry holding a module.
C14_OnlyOwnModuleWritten ==
    [][ last'.op = "createMediaKeys.then" =>
          /\ Len(_mediaKeysList') = Len(_mediaKeysList)
          /\ Cardinality(pendingCreate \ pendingCreate') = 1
          /\ \A j \in 1..Len(_mediaKeysList) :
                /\ _mediaKeysList'[j].mediaKeySystemAccess
                     = _mediaKeysList[j].mediaKeySystemAccess
                /\ j \notin (pendingCreate \ pendingCreate') =>
                     /\ _mediaKeysList'[j].mediaKeys = _mediaKeysList[j].mediaKeys
                     /\ \/ _mediaKeysList'[j].mediaKeysSession
                             = _mediaKeysList[j].mediaKeysSession
                        \/ /\ _mediaKeysList[j].mediaKeysSession = null
                           /\ _mediaKeysList[j].mediaKeys # null ]_vars

\* the continuation of entry 1 also gave entry 2 its session: entry 2's own
\* continuation had stopped at entry 1, whose module was still absent
C14_Witness ==
    /\ last = Report("createMediaKeys.then", "none", "none")
    /\ Len(_mediaKeysList) = 2
    /\ [entry |-> 1, receiver |-> null] \in sessionCalls
    /\ \A j \in 1..2 : _mediaKeysList[j].mediaKeysSession # null

\* C15: the module and the session of an entry, once present, are never
\* changed; the module is written only by the entry's own module-creation
\* continuation, the session only by a createSession evaluated on the
\* entry's module, and a session is present only if the module is.
C15_ModuleAndSessionSetOnce ==
    [][ /\ Len(_mediaKeysList') >= Len(_mediaKeysList)
        /\ \A j \in 1..Len(_mediaKeysList) :
              /\ _mediaKeysList[j].mediaKeys # null =>
                    _mediaKeysList'[j].mediaKeys = _mediaKeysList[j].mediaKeys
              /\ _mediaKeysList[j].mediaKeysSession # null =>
                    _mediaKeysList'[j].mediaKeysSession = _mediaKeysList[j].mediaKeysSession
              /\ _mediaKeysList'[j].mediaKeys # _mediaKeysList[j].mediaKeys =>
                    /\ last'.op = "createMediaKeys.then"
                    /\ j \in pendingCreate \ pendingCreate'
              /\ _mediaKeysList'[j].mediaKeysSession # _mediaKeysList[j].mediaKeysSession =>
                    /\ last'.op = "createMediaKeys.then"
                    /\ [entry |-> j, receiver |-> _mediaKeysList'[j].mediaKeys] \in sessionCalls'
        /\ \A j \in 1..Len(_mediaKeysList') :
              _mediaKeysList'[j].mediaKeysSession # null =>
                 _mediaKeysList'[j].mediaKeys # null ]_vars

\* two entries hold module and session, and a later notification left them so
C15_Witness ==
    /\ Len(_mediaKeysList) = 2
    /\ \A j \in 1..2 : /\ _mediaKeysList[j].mediaKeys = NewMediaKeys(j)
                       /\ _mediaKeysList[j].mediaKeysSession = NewSession(j)
    /\ last.op = "_onMediaEncrypted"

\* C16: every _attemptKeySystemAccess that passes the catalog issues exactly
\* one access request and every granted access exactly one createMediaKeys
\* request; no other step issues either, in particular not the step that
\* handles a failure.
C16_NoAutomaticRetry ==
    [][ /\ nRequestAccess' # nRequestAccess =>
              /\ last'.op = "_attemptKeySystemAccess"
              /\ nRequestAccess' = nRequestAccess + 1
        /\ (last'.op = "_attemptKeySystemAccess" /\ last'.error = "none") =>
              /\ nRequestAccess' = nRequestAccess + 1
              /\ Cardinality(pendingAccess') = Cardinality(pendingAccess) + 1
        /\ nCreateMediaKeys' # nCreateMediaKeys =>
              /\ last'.op = "_onMediaKeySystemAccessObtained"
              /\ nCreateMediaKeys' = nCreateMediaKeys + 1
        /\ last'.op = "_onMediaKeySystemAccessObtained" =>
              /\ nCreateMediaKeys' = nCreateMediaKeys + 1
              /\ Cardinality(pendingCreate') = Cardinality(pendingCreate) + 1
        /\ last'.error \in {"KeySystemAccessDenied", "ModuleCreationFailed"} =>
              /\ nRequestAccess' = nRequestAccess
              /\ nCreateMediaKeys' = nCreateMediaKeys
              /\ pendingAccess' \subseteq pendingAccess
              /\ pendingCreate' \subseteq pendingCreate ]_vars

\* one request was denied, the other granted and its module creation
\* rejected: nothing is pending and nothing more was requested
C16_Witness ==
    /\ nRequestAccess = 2
    /\ nCreateMediaKeys = 1
    /\ pendingAccess = {}
    /\ pendingCreate = {}
    /\ Len(_mediaKeysList) = 1
    /\ WithModule(_mediaKeysList) = {}
    /\ last = Report("createMediaKeys.catch", "ModuleCreationFailed", "rejected")

\* C17: the binding flag and the setMediaKeys calls change only in the step
\* that handles an encrypted notification; no access or module-creation
\* completion attaches by itself.
C17_BindOnlyOnEncrypted ==
    [][ (setMediaKeysCalls' # setMediaKeysCalls \/ _hasSetMediaKeys' # _hasSetMediaKeys)
        => last'.op = "_onMediaEncrypted" ]_vars

\* the notification was handled when no entry existed; a module has arrived
\* since and the sink is still unbound
C17_Witness ==
    /\ _isMediaEncrypted
    /\ ~_hasSetMediaKeys
    /\ setMediaKeysCalls = << >>
    /\ WithModule(_mediaKeysList) = {1}
    /\ last = Report("createMediaKeys.then", "none", "none")

\* C18: no step removes or reorders entries, and the access handle of an
\* entry never changes.
C18_AppendOnly ==
    [][ /\ Len(_mediaKeysList') >= Len(_mediaKeysList)
        /\ \A j \in 1..Len(_mediaKeysList) :
              _mediaKeysList'[j].mediaKeySystemAccess
                = _mediaKeysList[j].mediaKeySystemAccess ]_vars

\* the second request was granted first; both entries kept their place and
\* handle through module and session creation
C18_Witness ==
    /\ Len(_mediaKeysList) = 2
    /\ _mediaKeysList[1].mediaKeySystemAccess.id = 2
    /\ _mediaKeysList[2].mediaKeySystemAccess.id = 1
    /\ \A j \in 1..2 : _mediaKeysList[j].mediaKeysSession # null
    /\ _hasSetMediaKeys

\* C19: an 'encrypted' listener exists only when a media element is
\* recorded, so _attemptSetMediaKeys never meets a null _media and every
\* setMediaKeys call has a media element as its receiver.
C19_SinkPresentOnAttach ==
    /\ encryptedListeners # {} => _media # null
    /\ \A k \in 1..Len(setMediaKeysCalls) : setMediaKeysCalls[k].media \in Medias
    /\ ~(last.op = "_onMediaEncrypted" /\ last.error = "TypeError")

\* a notification of the one media element that was attached led to the
\* attach, made on the recorded media with the first granted entry
C19_Witness ==
    /\ Len(setMediaKeysCalls) = 1
    /\ setMediaKeysCalls[1].media = _media
    /\ encryptedListeners = {_media}
    /\ _mediaKeysList[1].mediaKeySystemAccess.id = 1
    /\ nRequestAccess = 1
    /\ last.op = "_onMediaEncrypted"
====
